---- MODULE Spec2Model ----
(***************************************************************************)
(* Model of the library_reminder backend (src/backend/src/index.ts, the    *)
(* JWT-authenticated revision at lines 209-521): the loan table, the       *)
(* subscription table, the /api/upload ingestion handler, the              *)
(* /api/books and /api/subscribe handlers and the scheduled notification   *)
(* scan.  DynamoDB, Bedrock and web-push are collaborators whose outcomes  *)
(* are nondeterministic choices.                                           *)
(* The browser store (src/frontend/src/store.ts) is modelled with its      *)
(* pending calls in the variables store and calls.                         *)
(***************************************************************************)
EXTENDS Integers, Sequences, FiniteSets, TLC

VARIABLES loans, subs, nextId, upl, res, clock, tzOffset, scan, attempts, runs,
          store, calls

vars == <<loans, subs, nextId, upl, res, clock, tzOffset, scan, attempts, runs,
         store, calls>>

apiVars == <<loans, subs, nextId, upl, res>>
scanVars == <<clock, tzOffset, scan, attempts, runs>>
\* the state of the browser application (src/frontend/src/store.ts)
feVars == <<store, calls>>

(***************************** bounds **************************************)
MaxIds == 2          \* bookIds (uuidv4 values) handed out in one behaviour
MaxBooks == 2        \* elements of a books array in a model response
MaxTextLen == 5      \* tokens of a model text in the extraction specification
MaxDay == 3          \* last calendar day that occurs as a stored date
MaxRuns == 2         \* runs of the scheduled scan in one behaviour
MaxClock == 72       \* last instant (hours since day 0, 00:00 UTC)

(***************************** values **************************************)
\* JavaScript values that occur as fields of a book element and as
\* attributes of a stored item.
Str(s) == [t |-> "string", v |-> s]
\* the YYYY-MM-DD string of calendar day n
Day(n) == [t |-> "date", d |-> n]
\* a string that is not a YYYY-MM-DD calendar date
BadDate == Str("June 10")
Null == [t |-> "null"]
Undefined == [t |-> "undefined"]

\* userId values of table items; /login signs every token with the subject
\* 'defaultUser', so requests of the API carry that subject
Users == {"defaultUser", "otherUser"}
Subjects == {"defaultUser"}
Subscriptions == {"sub1", "sub2"}
NoSub == "none"

IsValidDate(x) == x.t = "date"
IsNonEmptyText(x) == x.t = "string" /\ x.v # ""

\* a book element of the model output with its three required fields
WellFormedBook(b) ==
    /\ b # Null
    /\ IsNonEmptyText(b.title)
    /\ IsValidDate(b.lending_date)
    /\ IsValidDate(b.due_date)

(************************ model response ***********************************)
\* A model text is a sequence of tokens: "{" and "}" are braces, "b" is the
\* member  "books": <value>  (the value travels in the response's books
\* field), "x" is any prose or code-fence text (never valid inside JSON).
Tokens == {"{", "}", "b", "x"}

Texts(n) == UNION {[1..k -> Tokens] : k \in 0..n}

\* the books value: a JSON array, or a value that is not an array
Array(elems) == [t |-> "array", elems |-> elems]

IngestDays == 0..1

BaseBook == [title |-> Str("Foo"), lending_date |-> Day(0), due_date |-> Day(1)]

\* book elements the model may return: well-formed ones, ones with one
\* field empty, null, absent or not a date, and a null element
CandidateBooks ==
    {[BaseBook EXCEPT !.due_date = Day(d)] : d \in IngestDays}
      \cup {[BaseBook EXCEPT !.title = v] : v \in {Str(""), Null, Undefined}}
      \cup {[BaseBook EXCEPT !.lending_date = BadDate]}
      \cup {[BaseBook EXCEPT !.due_date = Null]}
      \cup {Null}

BookArrays(n) == UNION {[1..k -> CandidateBooks] : k \in 0..n}

\* null (falsy) and a string (truthy, not an array) stand for the non-arrays
BooksVals(n) == {Null, Str("none")} \cup {Array(a) : a \in BookArrays(n)}

NoResponse == [kind |-> "none", text |-> <<>>, books |-> Undefined]

\* what bedrockClient.send can give: a rejection, a body that is not the
\* {content:[{text}]} envelope, or an envelope carrying a text
Responses(texts, booksVals) ==
    {[kind |-> k, text |-> <<>>, books |-> Undefined] : k \in {"throw", "invalid"}}
      \cup {[kind |-> "ok", text |-> t,
             books |-> IF \E i \in 1..Len(t) : t[i] = "b" THEN bv ELSE Undefined] :
              t \in texts, bv \in booksVals}

(***************************** extraction **********************************)
FirstOpen(text) ==
    IF \E i \in 1..Len(text) : text[i] = "{"
    THEN CHOOSE i \in 1..Len(text) :
            text[i] = "{" /\ \A j \in 1..(i - 1) : text[j] # "{"
    ELSE 0

LastClose(text) ==
    IF \E i \in 1..Len(text) : text[i] = "}"
    THEN CHOOSE i \in 1..Len(text) :
            text[i] = "}" /\ \A j \in (i + 1)..Len(text) : text[j] # "}"
    ELSE 0

\* jsonString.match(/{[\s\S]*}/): the substring from the first "{" to the
\* last "}" of the text; <<>> stands for null (a match is never empty)
RegexMatch(text) ==
    IF FirstOpen(text) > 0 /\ LastClose(text) > FirstOpen(text)
    THEN SubSeq(text, FirstOpen(text), LastClose(text))
    ELSE <<>>

\* braces open after the first i tokens
Depth(text, i) ==
    Cardinality({j \in 1..i : text[j] = "{"}) - Cardinality({j \in 1..i : text[j] = "}"})

\* JSON.parse accepts the token sequence: exactly one object, whose members
\* are books members and nested objects
JsonParses(text) ==
    /\ Len(text) >= 2
    /\ text[1] = "{"
    /\ \A i \in 1..Len(text) : text[i] # "x"
    /\ \A i \in 1..(Len(text) - 1) : Depth(text, i) >= 1
    /\ Depth(text, Len(text)) = 0

\* parsedResult.books: the value of a top-level books member, else undefined
ParsedBooks(text, books) ==
    IF \E i \in 1..Len(text) : text[i] = "b" /\ Depth(text, i) = 1
    THEN books ELSE Undefined

\* mutant of InvalidFormat: the Array.isArray test is left out
InvalidFormatFalsyOnly(books) == books \in {Undefined, Null}

\* !parsedResult.books || !Array.isArray(parsedResult.books)
InvalidFormat(books) == books \in {Undefined, Null} \/ books.t # "array"

\* mutant of Item: the two dates change places
ItemDatesSwapped(user, id, book) ==
    [userId |-> user, bookId |-> id, title |-> book.title,
     lendingDate |-> book.due_date, dueDate |-> book.lending_date]

\* the Item of one PutRequest
Item(user, id, book) ==
    [userId |-> user, bookId |-> id, title |-> book.title,
     lendingDate |-> book.lending_date, dueDate |-> book.due_date]

\* parsedResult.books.map(book => ...), ids being the uuidv4 values
PutRequests(user, elems, firstId) ==
    [i \in 1..Len(elems) |-> Item(user, firstId + i - 1, elems[i])]

\* mutants of Extract: a text without a brace pair, or a response that is
\* not the expected envelope, is taken as "no books" instead of an error
ExtractNoMatchAsEmpty(user, r, firstId) ==
    IF r.kind = "throw" THEN [cause |-> "model", puts |-> <<>>]
    ELSE IF r.kind = "invalid" THEN [cause |-> "envelope", puts |-> <<>>]
    ELSE IF RegexMatch(r.text) = <<>> THEN [cause |-> "ok", puts |-> <<>>]
    ELSE IF ~JsonParses(RegexMatch(r.text)) THEN [cause |-> "json-parse", puts |-> <<>>]
    ELSE LET books == ParsedBooks(RegexMatch(r.text), r.books)
         IN IF InvalidFormat(books) THEN [cause |-> "schema", puts |-> <<>>]
            ELSE IF books.t # "array" \/ \E i \in 1..Len(books.elems) : books.elems[i] = Null
                 THEN [cause |-> "type-error", puts |-> <<>>]
            ELSE [cause |-> "ok", puts |-> PutRequests(user, books.elems, firstId)]

ExtractBadEnvelopeAsEmpty(user, r, firstId) ==
    IF r.kind = "throw" THEN [cause |-> "model", puts |-> <<>>]
    ELSE IF r.kind = "invalid" THEN [cause |-> "ok", puts |-> <<>>]
    ELSE IF RegexMatch(r.text) = <<>> THEN [cause |-> "no-json", puts |-> <<>>]
    ELSE IF ~JsonParses(RegexMatch(r.text)) THEN [cause |-> "json-parse", puts |-> <<>>]
    ELSE LET books == ParsedBooks(RegexMatch(r.text), r.books)
         IN IF InvalidFormat(books) THEN [cause |-> "schema", puts |-> <<>>]
            ELSE IF books.t # "array" \/ \E i \in 1..Len(books.elems) : books.elems[i] = Null
                 THEN [cause |-> "type-error", puts |-> <<>>]
            ELSE [cause |-> "ok", puts |-> PutRequests(user, books.elems, firstId)]

\* outcome of the try block up to the batch write: the reason it threw, or
\* "ok" with the put requests.  A books value that is not an array, and a
\* null element, make books.map throw a TypeError.
Extract(user, r, firstId) ==
    IF r.kind = "throw" THEN [cause |-> "model", puts |-> <<>>]
    ELSE IF r.kind = "invalid" THEN [cause |-> "envelope", puts |-> <<>>]
    ELSE IF RegexMatch(r.text) = <<>> THEN [cause |-> "no-json", puts |-> <<>>]
    ELSE IF ~JsonParses(RegexMatch(r.text)) THEN [cause |-> "json-parse", puts |-> <<>>]
    ELSE LET books == ParsedBooks(RegexMatch(r.text), r.books)
         IN IF InvalidFormat(books) THEN [cause |-> "schema", puts |-> <<>>]
            ELSE IF books.t # "array" \/ \E i \in 1..Len(books.elems) : books.elems[i] = Null
                 THEN [cause |-> "type-error", puts |-> <<>>]
            ELSE [cause |-> "ok", puts |-> PutRequests(user, books.elems, firstId)]

(***************************** tables **************************************)
\* BooksTable has partition key userId and sort key bookId: a put replaces
\* the item with the same key
PutItem(table, item) ==
    {l \in table : ~(l.userId = item.userId /\ l.bookId = item.bookId)} \cup {item}

RECURSIVE PutAll(_, _, _)
PutAll(table, puts, idxs) ==
    IF idxs = {} THEN table
    ELSE LET i == CHOOSE j \in idxs : \A k \in idxs : j <= k
         IN PutAll(PutItem(table, puts[i]), puts, idxs \ {i})

\* mutant of DeleteItem: the key is the bookId alone
DeleteItemByBookId(table, user, bookId) ==
    {l \in table : l.bookId # bookId}

DeleteItem(table, user, bookId) ==
    {l \in table : ~(l.userId = user /\ l.bookId = bookId)}

\* marshalling rejects an undefined attribute value (the document client is
\* built without removeUndefinedValues), before anything is sent
Marshallable(item) ==
    /\ item.title # Undefined
    /\ item.lendingDate # Undefined
    /\ item.dueDate # Undefined

(***************************** /api/upload *********************************)
Slots == {1, 2}

NoResult == [status |-> 0, count |-> 0, cause |-> "none", ids |-> {}]

IdleSlot == [pc |-> "idle", user |-> "defaultUser", response |-> NoResponse,
             puts |-> <<>>, result |-> NoResult]
OffSlot == [IdleSlot EXCEPT !.pc = "off"]

\* texts the API specification draws the model text from
ApiTexts == {<<"x", "{", "b", "}", "x">>, <<"{", "}">>, <<"{", "x", "}">>, <<"x">>}

\* the request reaches bedrockClient.send; the response it will get is in
\* flight from here on
UploadInvoke(s, u) ==
    /\ upl[s].pc = "idle"
    /\ \E r \in Responses(ApiTexts, BooksVals(IF MaxIds - nextId < MaxBooks
                                              THEN MaxIds - nextId ELSE MaxBooks)) :
          upl' = [upl EXCEPT ![s] = [pc |-> "invoked", user |-> u, response |-> r,
                                     puts |-> <<>>, result |-> NoResult]]
    /\ UNCHANGED <<loans, subs, nextId, res>>
    /\ UNCHANGED <<scanVars, feVars>>

Failed(cause, ids) == [status |-> 500, count |-> 0, cause |-> cause, ids |-> ids]
Succeeded(n, ids) == [status |-> 200, count |-> n, cause |-> "ok", ids |-> ids]

IdsOf(puts) == {puts[i].bookId : i \in 1..Len(puts)}

\* from the model response to the batch write being issued (or to the
\* response of the request when nothing is to be written)
UploadResponse(s) ==
    /\ upl[s].pc = "invoked"
    /\ LET e == Extract(upl[s].user, upl[s].response, nextId + 1)
       IN IF e.cause # "ok"
          THEN /\ upl' = [upl EXCEPT ![s].pc = "idle",
                                     ![s].result = Failed(e.cause, {})]
               /\ UNCHANGED nextId
          ELSE IF Len(e.puts) > 0
          THEN /\ upl' = [upl EXCEPT ![s].pc = "writing", ![s].puts = e.puts]
               /\ nextId' = nextId + Len(e.puts)
          ELSE /\ upl' = [upl EXCEPT ![s].pc = "idle",
                                     ![s].result = Succeeded(0, {})]
               /\ UNCHANGED nextId
    /\ UNCHANGED <<loans, subs, res>>
    /\ UNCHANGED <<scanVars, feVars>>

\* docClient.send(batchWriteCommand) settles.  BatchWriteItem is not atomic:
\* when the call resolves, at least one put has been applied and the rest
\* come back as UnprocessedItems, which the handler does not read; when it
\* rejects, any subset of the puts may have been applied.
BatchWriteResult(s) ==
    /\ upl[s].pc = "writing"
    /\ LET puts == upl[s].puts
       IN IF \E i \in 1..Len(puts) : ~Marshallable(puts[i])
          THEN /\ upl' = [upl EXCEPT ![s].pc = "idle",
                                     ![s].result = Failed("store", IdsOf(puts))]
               /\ UNCHANGED loans
          ELSE \E written \in SUBSET (1..Len(puts)) :
               \E thrown \in BOOLEAN :
                  /\ thrown \/ written # {}
                  /\ loans' = PutAll(loans, puts, written)
                  /\ upl' = [upl EXCEPT ![s].pc = "idle",
                              ![s].result = IF thrown
                                            THEN Failed("store", IdsOf(puts))
                                            ELSE Succeeded(Len(puts), IdsOf(puts))]
    /\ UNCHANGED <<subs, nextId, res>>
    /\ UNCHANGED <<scanVars, feVars>>

(************************ /api/books, /api/subscribe ***********************)
\* the last response of these routes
Res(op, user, status, items, bookId, sub) ==
    [op |-> op, user |-> user, status |-> status, items |-> items,
     bookId |-> bookId, sub |-> sub]

NoRes == Res("none", "defaultUser", 0, {}, 0, NoSub)

\* mutant of ListBooks: a scan without the userId filter
ListBooksUnfiltered(u) ==
    /\ \/ res' = Res("list", u, 200, loans, 0, NoSub)
       \/ res' = Res("list", u, 500, {}, 0, NoSub)
    /\ UNCHANGED <<loans, subs, nextId, upl>>
    /\ UNCHANGED <<scanVars, feVars>>

\* GET /api/books: a scan filtered by userId
ListBooks(u) ==
    /\ \/ res' = Res("list", u, 200, {l \in loans : l.userId = u}, 0, NoSub)
       \/ res' = Res("list", u, 500, {}, 0, NoSub)
    /\ UNCHANGED <<loans, subs, nextId, upl>>
    /\ UNCHANGED <<scanVars, feVars>>

\* mutant of DeleteBook: a delete conditional on the item existing, which
\* is rejected for an absent key
DeleteBookIfExists(u) ==
    /\ \E b \in 1..MaxIds :
         \/ /\ \E l \in loans : l.userId = u /\ l.bookId = b
            /\ loans' = DeleteItem(loans, u, b)
            /\ res' = Res("delete", u, 200, {}, b, NoSub)
         \/ /\ UNCHANGED loans
            /\ res' = Res("delete", u, 500, {}, b, NoSub)
    /\ UNCHANGED <<subs, nextId, upl>>
    /\ UNCHANGED <<scanVars, feVars>>

\* DELETE /api/books/:bookId
DeleteBook(u) ==
    /\ \E b \in 1..MaxIds :
         \/ /\ loans' = DeleteItem(loans, u, b)
            /\ res' = Res("delete", u, 200, {}, b, NoSub)
         \/ /\ UNCHANGED loans
            /\ res' = Res("delete", u, 500, {}, b, NoSub)
    /\ UNCHANGED <<subs, nextId, upl>>
    /\ UNCHANGED <<scanVars, feVars>>

\* mutant of Subscribe: a put that keeps a subscription the user already has
SubscribeKeepFirst(u) ==
    /\ \E sub \in Subscriptions, valid \in BOOLEAN :
         IF ~valid
         THEN /\ UNCHANGED subs
              /\ res' = Res("subscribe", u, 400, {}, 0, sub)
         ELSE \/ /\ subs' = [subs EXCEPT ![u] = IF subs[u] = NoSub THEN sub ELSE subs[u]]
                 /\ res' = Res("subscribe", u, 201, {}, 0, sub)
              \/ /\ UNCHANGED subs
                 /\ res' = Res("subscribe", u, 500, {}, 0, sub)
    /\ UNCHANGED <<loans, nextId, upl>>
    /\ UNCHANGED <<scanVars, feVars>>

\* POST /api/subscribe: valid is the verdict of zValidator(subscriptionSchema)
Subscribe(u) ==
    /\ \E sub \in Subscriptions, valid \in BOOLEAN :
         IF ~valid
         THEN /\ UNCHANGED subs
              /\ res' = Res("subscribe", u, 400, {}, 0, sub)
         ELSE \/ /\ subs' = [subs EXCEPT ![u] = sub]
                 /\ res' = Res("subscribe", u, 201, {}, 0, sub)
              \/ /\ UNCHANGED subs
                 /\ res' = Res("subscribe", u, 500, {}, 0, sub)
    /\ UNCHANGED <<loans, nextId, upl>>
    /\ UNCHANGED <<scanVars, feVars>>

(***************************** scheduled scan ******************************)
HoursPerDay == 24

\* UTC offsets (hours, local = UTC + offset) of the process timezone
TzOffsets == {-12, 0, 9}
\* the Lambda environment sets no TZ: the function runs in UTC
LambdaTz == 0

\* today.setHours(0, 0, 0, 0): the instant of local midnight of the local day
LocalMidnight(now, off) == ((now + off) \div HoursPerDay) * HoursPerDay - off

\* tomorrow.setDate(today.getDate() + 1): local midnight of the next local
\* day (a fixed-offset zone has no clock change)
NextLocalMidnight(today) == today + HoursPerDay

\* toISOString().split('T')[0]: the UTC calendar date of the instant
IsoDate(t) == Day(t \div HoursPerDay)

TodayStr(now, off) == IsoDate(LocalMidnight(now, off))
TomorrowStr(now, off) == IsoDate(NextLocalMidnight(LocalMidnight(now, off)))

\* mutants of DueFilter: a filter on today only, and a filter that skips
\* the loans an earlier run has notified
DueFilterTodayOnly(table, todayStr, tomorrowStr) ==
    {l \in table : l.dueDate = todayStr}

DueFilterOnce(table, todayStr, tomorrowStr) ==
    {l \in table :
        /\ l.dueDate = todayStr \/ l.dueDate = tomorrowStr
        /\ ~\E a \in attempts : a.ok /\ a.userId = l.userId /\ a.bookId = l.bookId}

\* FilterExpression 'dueDate = :today or dueDate = :tomorrow'
DueFilter(table, todayStr, tomorrowStr) ==
    {l \in table : l.dueDate = todayStr \/ l.dueDate = tomorrowStr}

\* Items of a scan, in key order (partition userId, sort key bookId)
KeyBefore(a, b) ==
    \/ a.userId = "defaultUser" /\ b.userId # "defaultUser"
    \/ a.userId = b.userId /\ a.bookId < b.bookId

RECURSIVE InKeyOrder(_)
InKeyOrder(items) ==
    IF items = {} THEN <<>>
    ELSE LET first == CHOOSE a \in items : \A b \in items \ {a} : KeyBefore(a, b)
         IN <<first>> \o InKeyOrder(items \ {first})

\* the notification payload of one book
Payload(book) == [title |-> "Book Return Reminder",
                  bookTitle |-> book.title, dueDate |-> book.dueDate]

IdleScan == [pc |-> "idle", todayStr |-> Day(0), tomorrowStr |-> Day(0),
             books |-> <<>>, idx |-> 0, sub |-> NoSub, outcome |-> "none",
             status |-> 0]

Done(sc, outcome) == [sc EXCEPT !.pc = "done", !.outcome = outcome, !.status = 200]

\* mutant of ScanBooks: a later run uses the list of books of the run
\* before it instead of reading the table again
ScanBooksCached ==
    /\ scan.pc \in {"idle", "done"}
    /\ runs < MaxRuns
    /\ runs' = runs + 1
    /\ LET todayStr == TodayStr(clock, tzOffset)
           tomorrowStr == TomorrowStr(clock, tzOffset)
           started == [IdleScan EXCEPT !.todayStr = todayStr,
                                       !.tomorrowStr = tomorrowStr]
           items == IF Len(scan.books) > 0 THEN scan.books
                    ELSE InKeyOrder(DueFilter(loans, todayStr, tomorrowStr))
       IN \/ scan' = IF Len(items) = 0
                     THEN Done(started, "no-books")
                     ELSE [started EXCEPT !.pc = "getsub", !.books = items]
          \/ scan' = Done(started, "error")
    /\ UNCHANGED <<clock, tzOffset, attempts>>
    /\ UNCHANGED <<apiVars, feVars>>

\* handler({source: 'morning_schedule'}): the dates are computed and the
\* books scan settles
ScanBooks ==
    /\ scan.pc \in {"idle", "done"}
    /\ runs < MaxRuns
    /\ runs' = runs + 1
    /\ LET todayStr == TodayStr(clock, tzOffset)
           tomorrowStr == TomorrowStr(clock, tzOffset)
           started == [IdleScan EXCEPT !.todayStr = todayStr,
                                       !.tomorrowStr = tomorrowStr]
           items == InKeyOrder(DueFilter(loans, todayStr, tomorrowStr))
       IN \/ scan' = IF Len(items) = 0
                     THEN Done(started, "no-books")
                     ELSE [started EXCEPT !.pc = "getsub", !.books = items]
          \/ scan' = Done(started, "error")
    /\ UNCHANGED <<clock, tzOffset, attempts>>
    /\ UNCHANGED <<apiVars, feVars>>

\* mutants of ScanGetSub: a read that removes the subscription it has read,
\* and a read whose result is used without the check for an absent item
ScanGetSubConsumes ==
    /\ scan.pc = "getsub"
    /\ \/ /\ scan' = IF subs["defaultUser"] = NoSub
                     THEN Done(scan, "no-subscription")
                     ELSE [scan EXCEPT !.pc = "sending", !.idx = 1,
                                       !.sub = subs["defaultUser"]]
          /\ subs' = [subs EXCEPT !["defaultUser"] = NoSub]
       \/ /\ scan' = Done(scan, "error")
          /\ UNCHANGED subs
    /\ UNCHANGED <<clock, tzOffset, attempts, runs>>
    /\ UNCHANGED <<loans, nextId, upl, res, feVars>>

ScanGetSubUnchecked ==
    /\ scan.pc = "getsub"
    /\ \/ scan' = [scan EXCEPT !.pc = "sending", !.idx = 1,
                                !.sub = subs["defaultUser"]]
       \/ scan' = Done(scan, "error")
    /\ UNCHANGED <<clock, tzOffset, attempts, runs>>
    /\ UNCHANGED <<apiVars, feVars>>

\* the GetCommand for the subscription of 'defaultUser' settles
ScanGetSub ==
    /\ scan.pc = "getsub"
    /\ \/ scan' = IF subs["defaultUser"] = NoSub
                  THEN Done(scan, "no-subscription")
                  ELSE [scan EXCEPT !.pc = "sending", !.idx = 1,
                                    !.sub = subs["defaultUser"]]
       \/ scan' = Done(scan, "error")
    /\ UNCHANGED <<clock, tzOffset, attempts, runs>>
    /\ UNCHANGED <<apiVars, feVars>>

Attempt(run, book, sub, ok) ==
    [run |-> run, userId |-> book.userId, bookId |-> book.bookId, sub |-> sub,
     payload |-> Payload(book), ok |-> ok]

\* mutant of ScanSend: the for loop outside the try, so that a rejection
\* ends the invocation with the error and without a result
ScanSendUncaught ==
    /\ scan.pc = "sending"
    /\ \E ok \in BOOLEAN :
         /\ attempts' = attempts \cup {Attempt(runs, scan.books[scan.idx], scan.sub, ok)}
         /\ scan' = IF ~ok THEN [scan EXCEPT !.pc = "done", !.outcome = "uncaught"]
                    ELSE IF scan.idx = Len(scan.books) THEN Done(scan, "sent")
                    ELSE [scan EXCEPT !.idx = scan.idx + 1]
    /\ UNCHANGED <<clock, tzOffset, runs>>
    /\ UNCHANGED <<apiVars, feVars>>

\* mutant of ScanSend: a rejected delivery is tried again
ScanSendRetry ==
    /\ scan.pc = "sending"
    /\ \E ok \in BOOLEAN :
         /\ attempts' = attempts \cup {Attempt(runs, scan.books[scan.idx], scan.sub, ok)}
         /\ scan' = IF ~ok THEN scan
                    ELSE IF scan.idx = Len(scan.books) THEN Done(scan, "sent")
                    ELSE [scan EXCEPT !.idx = scan.idx + 1]
    /\ UNCHANGED <<clock, tzOffset, runs>>
    /\ UNCHANGED <<apiVars, feVars>>

\* one webpush.sendNotification settles; a rejection leaves the for loop
\* through the catch of the enclosing try
ScanSend ==
    /\ scan.pc = "sending"
    /\ \E ok \in BOOLEAN :
         /\ attempts' = attempts \cup {Attempt(runs, scan.books[scan.idx], scan.sub, ok)}
         /\ scan' = IF ~ok THEN Done(scan, "error")
                    ELSE IF scan.idx = Len(scan.books) THEN Done(scan, "sent")
                    ELSE [scan EXCEPT !.idx = scan.idx + 1]
    /\ UNCHANGED <<clock, tzOffset, runs>>
    /\ UNCHANGED <<apiVars, feVars>>

Tick ==
    /\ clock + HoursPerDay <= MaxClock
    /\ clock' = clock + HoursPerDay
    /\ UNCHANGED <<tzOffset, scan, attempts, runs>>
    /\ UNCHANGED <<apiVars, feVars>>

(***************************** handler *************************************)
\* the CfnSchedule resources of the stack with the source of their input
Schedules ==
    {[name |-> "MorningSchedule", source |-> "morning_schedule"],
     [name |-> "EveningSchedule", source |-> "evening_schedule"]}

\* an event that is not routed to the scan goes to handle(app), which finds
\* no HTTP request in it: the invocation fails (status 0) or answers 404
HttpHandling(event) ==
    /\ \E st \in {0, 404} : res' = Res("http", "defaultUser", st, {}, 0, NoSub)
    /\ UNCHANGED <<loans, subs, nextId, upl>>
    /\ UNCHANGED <<scanVars, feVars>>

\* handler(event, context) for the input of a schedule
handler(event) ==
    IF event.source = "morning_schedule" THEN ScanBooks ELSE HttpHandling(event)

(***************************** frontend store ******************************)
MaxCalls == 2        \* calls of store actions that are pending at one time

\* the subject of the token the browser holds
FeUser == "defaultUser"

\* the state the store is created with
InitialState ==
    [isAuthenticated |-> FALSE, books |-> {}, isLoading |-> FALSE, error |-> Null]

\* a call of an async action of the store: "sent" while its request is
\* awaited, "fulfilled" or "rejected" once axios has settled and the rest of
\* the action has not run yet, "settled" for a deleteBook that has resolved
\* successfully; data is response.data of a fulfilled GET /books
Call(kind, pc, bookId, data) ==
    [kind |-> kind, pc |-> pc, bookId |-> bookId, data |-> data]

Pending == {c \in calls : c.pc # "settled"}

Replace(c, d) == (calls \ {c}) \cup {d}

\* the synchronous head of every action, set({ isLoading: true, error: null }),
\* up to its first await
Start(kind, bookId) ==
    /\ Cardinality(Pending) < MaxCalls
    /\ Call(kind, "sent", bookId, {}) \notin calls
    /\ store' = [store EXCEPT !.isLoading = TRUE, !.error = Null]
    /\ calls' = calls \cup {Call(kind, "sent", bookId, {})}
    /\ UNCHANGED <<apiVars, scanVars>>

login == Start("login", 0)

fetchBooks == Start("fetch", 0)

uploadImage == Start("upload", 0)

deleteBook(bookId) == Start("delete", bookId)

\* the awaited request settles.  It is rejected without reaching the route,
\* or the route runs and its response is received (fulfilled) or is an error
\* status or lost (rejected): GET /books reads the loans of the user,
\* POST /upload stores the records it extracted, DELETE /books/:bookId
\* deletes the key
Respond(c) ==
    /\ c \in calls
    /\ c.pc = "sent"
    /\ \/ /\ calls' = Replace(c, [c EXCEPT !.pc = "rejected"])
          /\ UNCHANGED <<loans, nextId>>
       \/ /\ c.kind = "login"
          /\ calls' = Replace(c, [c EXCEPT !.pc = "fulfilled"])
          /\ UNCHANGED <<loans, nextId>>
       \/ /\ c.kind = "fetch"
          /\ calls' = Replace(c, [c EXCEPT !.pc = "fulfilled",
                                           !.data = {l \in loans : l.userId = FeUser}])
          /\ UNCHANGED <<loans, nextId>>
       \/ /\ c.kind = "upload"
          /\ \E pc \in {"fulfilled", "rejected"}, n \in {0, 1} :
               /\ nextId + n <= MaxIds
               /\ calls' = Replace(c, [c EXCEPT !.pc = pc])
               /\ loans' = IF n = 1
                           THEN PutItem(loans, Item(FeUser, nextId + 1, BaseBook))
                           ELSE loans
               /\ nextId' = nextId + n
       \/ /\ c.kind = "delete"
          /\ \E pc \in {"fulfilled", "rejected"} :
               calls' = Replace(c, [c EXCEPT !.pc = pc])
          /\ loans' = DeleteItem(loans, FeUser, c.bookId)
          /\ UNCHANGED nextId
    /\ UNCHANGED <<subs, upl, res, store>>
    /\ UNCHANGED scanVars

\* the rest of login after its await: the success path or the catch block
loginDone(c) ==
    /\ c \in calls
    /\ c.kind = "login"
    /\ c.pc \in {"fulfilled", "rejected"}
    /\ store' = IF c.pc = "fulfilled"
                THEN [store EXCEPT !.isAuthenticated = TRUE, !.isLoading = FALSE]
                ELSE [store EXCEPT !.error = Str("Login failed. Please check your password."),
                                   !.isAuthenticated = FALSE, !.isLoading = FALSE]
    /\ calls' = calls \ {c}
    /\ UNCHANGED <<apiVars, scanVars>>

\* mutant of fetchBooksDone: the catch block also empties the list
fetchBooksDoneClearing(c) ==
    /\ c \in calls
    /\ c.kind = "fetch"
    /\ c.pc \in {"fulfilled", "rejected"}
    /\ store' = IF c.pc = "fulfilled"
                THEN [store EXCEPT !.books = c.data, !.isLoading = FALSE]
                ELSE [store EXCEPT !.error = Str("Failed to fetch books."),
                                   !.books = {}, !.isLoading = FALSE]
    /\ calls' = calls \ {c}
    /\ UNCHANGED <<apiVars, scanVars>>

\* the rest of fetchBooks: set({ books: response.data, isLoading: false })
\* or the catch block
fetchBooksDone(c) ==
    /\ c \in calls
    /\ c.kind = "fetch"
    /\ c.pc \in {"fulfilled", "rejected"}
    /\ store' = IF c.pc = "fulfilled"
                THEN [store EXCEPT !.books = c.data, !.isLoading = FALSE]
                ELSE [store EXCEPT !.error = Str("Failed to fetch books."),
                                   !.isLoading = FALSE]
    /\ calls' = calls \ {c}
    /\ UNCHANGED <<apiVars, scanVars>>

\* the rest of uploadImage: set({ isLoading: false }) and get().fetchBooks(),
\* whose head runs in the same turn and is not awaited, or the catch block.
\* Two pending fetchBooks calls with the same state are represented once.
uploadImageDone(c) ==
    /\ c \in calls
    /\ c.kind = "upload"
    /\ c.pc \in {"fulfilled", "rejected"}
    /\ IF c.pc = "fulfilled"
       THEN /\ store' = [store EXCEPT !.isLoading = TRUE, !.error = Null]
            /\ calls' = Replace(c, Call("fetch", "sent", 0, {}))
       ELSE /\ store' = [store EXCEPT !.error = Str("Failed to upload image."),
                                      !.isLoading = FALSE]
            /\ calls' = calls \ {c}
    /\ UNCHANGED <<apiVars, scanVars>>

\* the rest of deleteBook: the list without the book, or the catch block
deleteBookDone(c) ==
    /\ c \in calls
    /\ c.kind = "delete"
    /\ c.pc \in {"fulfilled", "rejected"}
    /\ IF c.pc = "fulfilled"
       THEN /\ store' = [store EXCEPT
                           !.books = {l \in store.books : l.bookId # c.bookId},
                           !.isLoading = FALSE]
            /\ calls' = Replace(c, [c EXCEPT !.pc = "settled"])
       ELSE /\ store' = [store EXCEPT !.error = Str("Failed to delete book."),
                                      !.isLoading = FALSE]
            /\ calls' = calls \ {c}
    /\ UNCHANGED <<apiVars, scanVars>>

(***************************** specifications ******************************)
\* uploads and deletes, from an empty loan table
Init ==
    /\ loans = {}
    /\ subs = [u \in Users |-> NoSub]
    /\ nextId = 0
    /\ upl = [s \in Slots |-> IF s = 1 THEN IdleSlot ELSE OffSlot]
    /\ res = NoRes
    /\ clock = HoursPerDay
    /\ tzOffset = LambdaTz
    /\ scan = IdleScan
    /\ attempts = {}
    /\ runs = 0
    /\ store = InitialState
    /\ calls = {}

Next ==
    \/ \E s \in Slots, u \in Subjects : UploadInvoke(s, u)
    \/ \E s \in Slots : UploadResponse(s)
    \/ \E s \in Slots : BatchWriteResult(s)
    \/ \E u \in Subjects : DeleteBook(u)

Spec == Init /\ [][Next]_vars

\* one upload whose model response is any text of up to MaxTextLen tokens
ExtractBooksVals == BooksVals(1)

InitExtract ==
    /\ loans = {}
    /\ subs = [u \in Users |-> NoSub]
    /\ nextId = 0
    /\ \E r \in Responses(Texts(MaxTextLen), ExtractBooksVals) :
         upl = [s \in Slots |-> IF s = 1 THEN [IdleSlot EXCEPT !.pc = "invoked",
                                                               !.response = r]
                                ELSE OffSlot]
    /\ res = NoRes
    /\ clock = HoursPerDay
    /\ tzOffset = LambdaTz
    /\ scan = IdleScan
    /\ attempts = {}
    /\ runs = 0
    /\ store = InitialState
    /\ calls = {}

NextExtract ==
    \/ \E s \in Slots : UploadResponse(s)
    \/ \E s \in Slots : BatchWriteResult(s)

SpecExtract == InitExtract /\ [][NextExtract]_vars

\* the scheduled scan over tables as uploads and subscribe calls leave them
MaxScanLoans == 2
ScanDues == {Day(d) : d \in 0..MaxDay} \cup {BadDate}
ScanTitles == [i \in 1..3 |-> Str(<<"Foo", "Bar", "Baz">>[i])]

ScanLoan(u, id, due) ==
    [userId |-> u, bookId |-> id, title |-> ScanTitles[((id - 1) % 3) + 1],
     lendingDate |-> Day(0), dueDate |-> due]

ScanStores ==
    UNION {{{ScanLoan(own[id], id, due[id]) : id \in ids} :
              own \in [ids -> Users], due \in [ids -> ScanDues]} :
           ids \in SUBSET (1..MaxScanLoans)}

InitScan ==
    /\ loans \in ScanStores
    /\ subs \in [Users -> {NoSub} \cup Subscriptions]
    /\ subs["defaultUser"] # "sub2"
    /\ subs["otherUser"] # "sub1"
    /\ nextId = MaxScanLoans
    /\ upl = [s \in Slots |-> OffSlot]
    /\ res = NoRes
    /\ clock = HoursPerDay
    /\ tzOffset = LambdaTz
    /\ scan = IdleScan
    /\ attempts = {}
    /\ runs = 0
    /\ store = InitialState
    /\ calls = {}

NextScan ==
    \/ ScanBooks
    \/ ScanGetSub
    \/ ScanSend
    \/ Tick

SpecScan == InitScan /\ [][NextScan]_vars

\* two upload requests of the same user whose model calls are in flight at
\* the same time; each model call answers with a text around a books array
\* of storable books, or fails
TwoTexts == {<<"x", "{", "b", "}", "x">>}
TwoBooksVals ==
    {Array(a) : a \in UNION {[1..k -> {b \in CandidateBooks : WellFormedBook(b)}] :
                               k \in 0..MaxBooks}}

InitTwo ==
    /\ loans = {}
    /\ subs = [u \in Users |-> NoSub]
    /\ nextId = 0
    /\ \E r1 \in Responses(TwoTexts, TwoBooksVals) :
       \E r2 \in Responses(TwoTexts, TwoBooksVals) :
         upl = [s \in Slots |-> [IdleSlot EXCEPT !.pc = "invoked",
                                                 !.response = IF s = 1 THEN r1 ELSE r2]]
    /\ res = NoRes
    /\ clock = HoursPerDay
    /\ tzOffset = LambdaTz
    /\ scan = IdleScan
    /\ attempts = {}
    /\ runs = 0
    /\ store = InitialState
    /\ calls = {}

NextTwo ==
    \/ \E s \in Slots : UploadResponse(s)
    \/ \E s \in Slots : BatchWriteResult(s)

SpecTwo == InitTwo /\ [][NextTwo]_vars

\* /api/books and /api/subscribe over tables that hold loans of several
\* users; defaultUser has subscribed once
StoreStores ==
    UNION {{{ScanLoan(own[id], id, Day(1)) : id \in ids} : own \in [ids -> Users]} :
           ids \in SUBSET (1..MaxScanLoans)}

InitStore ==
    /\ loans \in StoreStores
    /\ subs = [u \in Users |-> IF u = "defaultUser" THEN "sub1" ELSE NoSub]
    /\ nextId = MaxScanLoans
    /\ upl = [s \in Slots |-> OffSlot]
    /\ res = NoRes
    /\ clock = HoursPerDay
    /\ tzOffset = LambdaTz
    /\ scan = IdleScan
    /\ attempts = {}
    /\ runs = 0
    /\ store = InitialState
    /\ calls = {}

NextStore ==
    \/ \E u \in Users : ListBooks(u)
    \/ \E u \in Users : DeleteBook(u)
    \/ \E u \in Users : Subscribe(u)

SpecStore == InitStore /\ [][NextStore]_vars

\* one upload of a user who has no loans, whose model call is in flight and
\* answers with at most one book, followed, once the upload has answered,
\* by list and delete requests of that user; the table may hold a loan of
\* another user
E2EBooksVals == BooksVals(1)

InitE2E ==
    /\ loans \in {{}, {ScanLoan("otherUser", 1, Day(1))}}
    /\ subs = [u \in Users |-> NoSub]
    /\ nextId = Cardinality(loans)
    /\ \E r \in Responses(TwoTexts, E2EBooksVals) :
         upl = [s \in Slots |-> IF s = 1 THEN [IdleSlot EXCEPT !.pc = "invoked",
                                                               !.response = r]
                                ELSE OffSlot]
    /\ res = NoRes
    /\ clock = HoursPerDay
    /\ tzOffset = LambdaTz
    /\ scan = IdleScan
    /\ attempts = {}
    /\ runs = 0
    /\ store = InitialState
    /\ calls = {}

NextE2E ==
    \/ \E s \in Slots : UploadResponse(s)
    \/ \E s \in Slots : BatchWriteResult(s)
    \/ \E u \in Subjects : upl[1].pc = "idle" /\ ListBooks(u)
    \/ \E u \in Subjects : upl[1].pc = "idle" /\ DeleteBook(u)

SpecE2E == InitE2E /\ [][NextE2E]_vars

\* invocations of both kinds side by side: one upload whose model call is
\* in flight, and scheduled scans over the table the upload writes to
InitInvocations ==
    /\ loans \in {{}, {ScanLoan("defaultUser", 1, Day(1))}}
    /\ subs \in {[u \in Users |-> IF u = "defaultUser" THEN sub ELSE NoSub] :
                   sub \in {NoSub, "sub1"}}
    /\ nextId = Cardinality(loans)
    /\ \E r \in Responses(TwoTexts, E2EBooksVals) :
         upl = [s \in Slots |-> IF s = 1 THEN [IdleSlot EXCEPT !.pc = "invoked",
                                                               !.response = r]
                                ELSE OffSlot]
    /\ res = NoRes
    /\ clock = HoursPerDay
    /\ tzOffset = LambdaTz
    /\ scan = IdleScan
    /\ attempts = {}
    /\ runs = 0
    /\ store = InitialState
    /\ calls = {}

NextInvocations ==
    \/ \E s \in Slots : UploadResponse(s)
    \/ \E s \in Slots : BatchWriteResult(s)
    \/ ScanBooks
    \/ ScanGetSub
    \/ ScanSend

SpecInvocations == InitInvocations /\ [][NextInvocations]_vars

\* scheduled runs at any hour, in a process whose timezone has any of the
\* offsets, over an empty loan table
InitDates ==
    /\ loans = {}
    /\ subs = [u \in Users |-> NoSub]
    /\ nextId = 0
    /\ upl = [s \in Slots |-> OffSlot]
    /\ res = NoRes
    /\ clock \in 0..MaxClock
    /\ tzOffset \in TzOffsets
    /\ scan = IdleScan
    /\ attempts = {}
    /\ runs = 0
    /\ store = InitialState
    /\ calls = {}

NextDates ==
    \/ ScanBooks
    \/ Tick

SpecDates == InitDates /\ [][NextDates]_vars

\* firings of the schedules of the stack, over tables of due loans
InitSchedules ==
    /\ loans \in StoreStores
    /\ subs \in {[u \in Users |-> IF u = "defaultUser" THEN sub ELSE NoSub] :
                   sub \in {NoSub, "sub1"}}
    /\ nextId = MaxScanLoans
    /\ upl = [s \in Slots |-> OffSlot]
    /\ res = NoRes
    /\ clock = HoursPerDay
    /\ tzOffset = LambdaTz
    /\ scan = IdleScan
    /\ attempts = {}
    /\ runs = 0
    /\ store = InitialState
    /\ calls = {}

NextSchedules ==
    \/ \E sch \in Schedules : handler(sch)
    \/ ScanGetSub
    \/ ScanSend

SpecSchedules == InitSchedules /\ [][NextSchedules]_vars

\* scheduled runs interleaved with delete requests, over tables of due
\* loans, with a subscription stored
InitScanDelete ==
    /\ loans \in StoreStores
    /\ subs = [u \in Users |-> IF u = "defaultUser" THEN "sub1" ELSE NoSub]
    /\ nextId = MaxScanLoans
    /\ upl = [s \in Slots |-> OffSlot]
    /\ res = NoRes
    /\ clock = HoursPerDay
    /\ tzOffset = LambdaTz
    /\ scan = IdleScan
    /\ attempts = {}
    /\ runs = 0
    /\ store = InitialState
    /\ calls = {}

NextScanDelete ==
    \/ ScanBooks
    \/ ScanGetSub
    \/ ScanSend
    \/ \E u \in Subjects : DeleteBook(u)

SpecScanDelete == InitScanDelete /\ [][NextScanDelete]_vars

\* a table that holds n loans of the user
FeLoans(n) == {Item(FeUser, i, BaseBook) : i \in 1..n}

\* every call of the store that can be pending
FeCalls ==
    {Call(k, pc, 0, {}) : k \in {"login", "upload"}, pc \in {"sent", "fulfilled", "rejected"}}
    \cup {Call("fetch", pc, 0, {}) : pc \in {"sent", "rejected"}}
    \cup {Call("fetch", "fulfilled", 0, d) : d \in SUBSET FeLoans(MaxIds)}
    \cup {Call("delete", pc, b, {}) : pc \in {"sent", "fulfilled", "rejected", "settled"},
                                        b \in 1..MaxIds}

\* the store in a browser, against a table that holds one loan of the user
InitFrontend ==
    /\ loans = FeLoans(1)
    /\ subs = [u \in Users |-> NoSub]
    /\ nextId = 1
    /\ upl = [s \in Slots |-> OffSlot]
    /\ res = NoRes
    /\ clock = HoursPerDay
    /\ tzOffset = LambdaTz
    /\ scan = IdleScan
    /\ attempts = {}
    /\ runs = 0
    /\ store = InitialState
    /\ calls = {}

NextFrontend ==
    \/ login
    \/ fetchBooks
    \/ uploadImage
    \/ \E b \in 1..MaxIds : deleteBook(b)
    \/ \E c \in FeCalls : Respond(c)
    \/ \E c \in FeCalls : loginDone(c)
    \/ \E c \in FeCalls : fetchBooksDone(c)
    \/ \E c \in FeCalls : uploadImageDone(c)
    \/ \E c \in FeCalls : deleteBookDone(c)

SpecFrontend == InitFrontend /\ [][NextFrontend]_vars

\* a fetchBooks is pending and the list shows the stored loans; deleteBook
\* calls are started after it, and no other fetchBooks is
InitFetchDelete ==
    /\ loans = FeLoans(MaxIds)
    /\ subs = [u \in Users |-> NoSub]
    /\ nextId = MaxIds
    /\ upl = [s \in Slots |-> OffSlot]
    /\ res = NoRes
    /\ clock = HoursPerDay
    /\ tzOffset = LambdaTz
    /\ scan = IdleScan
    /\ attempts = {}
    /\ runs = 0
    /\ store \in {[isAuthenticated |-> TRUE, books |-> b, isLoading |-> TRUE,
                   error |-> Null] : b \in {{}, FeLoans(MaxIds)}}
    /\ calls = {Call("fetch", "sent", 0, {})}

NextFetchDelete ==
    \/ \E b \in 1..MaxIds : deleteBook(b)
    \/ \E c \in FeCalls : Respond(c)
    \/ \E c \in FeCalls : fetchBooksDone(c)
    \/ \E c \in FeCalls : deleteBookDone(c)

SpecFetchDelete == InitFetchDelete /\ [][NextFetchDelete]_vars

\* the store after a successful login; each action is called again only
\* when its previous call has ended
Idle(kind) == \A c \in Pending : c.kind # kind

InitFailures ==
    /\ loans = FeLoans(1)
    /\ subs = [u \in Users |-> NoSub]
    /\ nextId = 1
    /\ upl = [s \in Slots |-> OffSlot]
    /\ res = NoRes
    /\ clock = HoursPerDay
    /\ tzOffset = LambdaTz
    /\ scan = IdleScan
    /\ attempts = {}
    /\ runs = 0
    /\ store = [InitialState EXCEPT !.isAuthenticated = TRUE]
    /\ calls = {}

NextFailures ==
    \/ Idle("fetch") /\ fetchBooks
    \/ Idle("upload") /\ uploadImage
    \/ \E b \in 1..MaxIds : Idle("delete") /\ deleteBook(b)
    \/ \E c \in FeCalls : Respond(c)
    \/ \E c \in FeCalls : fetchBooksDone(c)
    \/ \E c \in FeCalls : uploadImageDone(c)
    \/ \E c \in FeCalls : deleteBookDone(c)

SpecFailures == InitFailures /\ [][NextFailures]_vars

(***************************** properties **********************************)
Range(seq) == {seq[i] : i \in 1..Len(seq)}

\* the loans of a table that are due on day d or on the day after d
DueSoon(table, d) ==
    {l \in table : IsValidDate(l.dueDate) /\ (l.dueDate.d = d.d \/ l.dueDate.d = d.d + 1)}

\* the loans of the scan's list for which the run `run` made an attempt
Attempted(run) ==
    {l \in Range(scan.books) :
        \E a \in attempts : a.run = run /\ a.userId = l.userId /\ a.bookId = l.bookId}

\* C1: in a scan that found a subscription, a delivery is attempted for
\* every due loan of the scan, also when the delivery for another loan of
\* the same scan failed: a failed delivery does not abort the remaining ones.
C1_FailureDoesNotAbort ==
    (scan.pc = "done" /\ scan.sub # NoSub) => Attempted(runs) = Range(scan.books)

\* C2: when the books scan of a run settles, the loans it selected are
\* exactly the stored loans, of every user, whose dueDate is the run's
\* reference date d or d + 1 day; every other loan is excluded.
C2_ScanSelectsDueSoon ==
    [][(runs' = runs + 1 /\ scan'.outcome # "error")
          => Range(scan'.books) = DueSoon(loans, scan'.todayStr)]_vars

\* a scan that selected a loan of another user due on d + 1 and excluded a
\* loan due on d - 1 or on d + 2
C2_Witness ==
    /\ scan.pc = "getsub"
    /\ \E l \in Range(scan.books) :
         l.userId = "otherUser" /\ l.dueDate = Day(scan.todayStr.d + 1)
    /\ \E l \in loans \ Range(scan.books) :
         l.dueDate \in {Day(scan.todayStr.d - 1), Day(scan.todayStr.d + 2)}

\* C3: the scan keeps no record of earlier notifications: a run that finds a
\* subscription and in which no delivery is rejected delivers a notification
\* for every loan whose dueDate is that run's today or tomorrow, whether or
\* not an earlier run already delivered one for it.
C3_EveryRunNotifies ==
    (scan.pc = "done" /\ scan.outcome = "sent")
      => \A l \in DueSoon(loans, scan.todayStr) :
            \E a \in attempts :
               a.run = runs /\ a.userId = l.userId /\ a.bookId = l.bookId /\ a.ok

\* a loan that has received a notification in each of two runs
C3_Witness ==
    /\ scan.pc = "done" /\ scan.outcome = "sent"
    /\ \E a1 \in attempts, a2 \in attempts :
         /\ a1.userId = a2.userId /\ a1.bookId = a2.bookId
         /\ a1.ok /\ a2.ok
         /\ a1.run = 1 /\ a2.run = 2

\* the text holds a substring from a "{" to a "}" that JSON.parse accepts
\* and that satisfies P
SomeJsonSubstring(text, P(_)) ==
    \E i \in 1..Len(text), j \in 1..Len(text) :
       /\ i < j /\ text[i] = "{" /\ text[j] = "}"
       /\ JsonParses(SubSeq(text, i, j))
       /\ P(SubSeq(text, i, j))

AnyText(t) == TRUE
HasTopLevelBooks(t) == \E i \in 1..Len(t) : t[i] = "b" /\ Depth(t, i) = 1

\* the slot has processed the model response it holds
Processed(s) == upl[s].pc \in {"idle", "writing"} /\ upl[s].response # NoResponse

ExtractionCauses == {"model", "envelope", "no-json", "json-parse", "schema", "type-error"}

\* the book element a put request was built from
BookOf(item) == [title |-> item.title, lending_date |-> item.lendingDate,
                 due_date |-> item.dueDate]

\* C4: when the model text contains a valid JSON object with a books array,
\* whatever text surrounds it, extraction succeeds and yields exactly the
\* well-formed elements of that array.
C4_ExtractsWellFormedEntries ==
    \A s \in Slots :
       (/\ Processed(s)
        /\ upl[s].response.kind = "ok"
        /\ SomeJsonSubstring(upl[s].response.text, HasTopLevelBooks)
        /\ upl[s].response.books.t = "array")
         => /\ upl[s].result.cause \notin ExtractionCauses
            /\ [i \in 1..Len(upl[s].puts) |-> BookOf(upl[s].puts[i])]
                 = SelectSeq(upl[s].response.books.elems, WellFormedBook)

\* C5: when no substring of the model text from a "{" to a "}" parses as
\* JSON (a text without a brace pair included), the ingest ends as a failure
\* caused by the missing JSON, never as a success, and writes nothing.
C5_NoJsonFails ==
    \A s \in Slots :
       (/\ Processed(s)
        /\ upl[s].response.kind = "ok"
        /\ ~SomeJsonSubstring(upl[s].response.text, AnyText))
         => /\ upl[s].pc = "idle"
            /\ upl[s].result.status = 500
            /\ upl[s].result.cause \in {"no-json", "json-parse"}
            /\ upl[s].result.ids = {}
            /\ loans = {}

\* an ingest failed on a text that has a brace pair around a books member
\* and prose, none of whose substrings parses
C5_Witness ==
    /\ upl[1].pc = "idle" /\ upl[1].result.status = 500
    /\ upl[1].response.kind = "ok"
    /\ ~SomeJsonSubstring(upl[1].response.text, AnyText)
    /\ RegexMatch(upl[1].response.text) # <<>>
    /\ upl[1].response.books.t = "array"

\* the object extracted from the text parses and has no books member, or its
\* books member is not an array
SchemaMalformed(r) ==
    /\ r.kind = "ok"
    /\ JsonParses(RegexMatch(r.text))
    /\ ~HasTopLevelBooks(RegexMatch(r.text)) \/ r.books.t # "array"

\* C6: when the extracted JSON object has no books field, or its books field
\* is not a sequence, the ingest fails with the malformed-schema error and
\* no record is written.
C6_MalformedSchemaFails ==
    \A s \in Slots :
       (Processed(s) /\ SchemaMalformed(upl[s].response))
         => /\ upl[s].pc = "idle"
            /\ upl[s].result.status = 500
            /\ upl[s].result.cause = "schema"
            /\ upl[s].result.ids = {}
            /\ loans = {}

\* an ingest failed on an object whose books member is a string
C6_Witness ==
    /\ upl[1].pc = "idle" /\ upl[1].result.status = 500
    /\ SchemaMalformed(upl[1].response)
    /\ upl[1].response.books = Str("none")

\* a books array of book objects, some well-formed and some with title,
\* lending_date or due_date missing
MissingField(b) ==
    b # Null /\ Undefined \in {b.title, b.lending_date, b.due_date}

MixedBooks(r) ==
    /\ r.kind = "ok"
    /\ JsonParses(RegexMatch(r.text))
    /\ HasTopLevelBooks(RegexMatch(r.text))
    /\ r.books.t = "array"
    /\ \A i \in 1..Len(r.books.elems) :
          WellFormedBook(r.books.elems[i]) \/ MissingField(r.books.elems[i])
    /\ \E i \in 1..Len(r.books.elems) : WellFormedBook(r.books.elems[i])
    /\ \E i \in 1..Len(r.books.elems) : MissingField(r.books.elems[i])

\* C7: when the books array mixes well-formed elements with elements missing
\* a required field, the malformed elements are dropped one by one: the
\* ingest does not fail on them and the records it writes are exactly those
\* of the well-formed elements.
C7_MalformedDroppedIndividually ==
    \A s \in Slots :
       (Processed(s) /\ MixedBooks(upl[s].response))
         => /\ [i \in 1..Len(upl[s].puts) |-> BookOf(upl[s].puts[i])]
                 = SelectSeq(upl[s].response.books.elems, WellFormedBook)
            /\ upl[s].result.cause \notin ExtractionCauses

\* C8: every stored loan record has a non-empty title and a lendingDate and
\* dueDate that are valid YYYY-MM-DD calendar dates.
C8_StoredLoansWellFormed ==
    \A l \in loans :
       /\ IsNonEmptyText(l.title)
       /\ IsValidDate(l.lendingDate)
       /\ IsValidDate(l.dueDate)

\* extraction of the response fails: the model call or its envelope is
\* invalid, no JSON is found, the JSON does not parse, or the schema is
\* malformed
ExtractionFails(r) ==
    \/ r.kind \in {"throw", "invalid"}
    \/ /\ r.kind = "ok"
       /\ \/ RegexMatch(r.text) = <<>>
          \/ ~JsonParses(RegexMatch(r.text))
          \/ ~HasTopLevelBooks(RegexMatch(r.text))
          \/ r.books.t # "array"

\* C9: when extraction of the model response fails, the step that processes
\* the response ends the ingest as a failure, issues no batch write and
\* leaves the loan table as it was.
C9_ExtractionFailureWritesNothing ==
    [][\A s \in Slots :
          (/\ upl[s].pc = "invoked"
           /\ upl'[s] # upl[s]
           /\ ExtractionFails(upl[s].response))
            => /\ upl'[s].pc = "idle"
               /\ upl'[s].result.status = 500
               /\ upl'[s].result.ids = {}
               /\ upl'[s].puts = <<>>
               /\ loans' = loans]_vars

\* an ingest has failed on extraction while the table holds records of an
\* earlier ingest
C9_Witness ==
    /\ loans # {}
    /\ upl[1].pc = "idle"
    /\ upl[1].result.status = 500
    /\ ExtractionFails(upl[1].response)
    /\ upl[1].response.kind = "ok"

\* C10: after an ingest that is reported as failed, no loan record of that
\* ingest is in the table, also when the batch write fails part-way.
C10_FailedIngestLeavesNoRecord ==
    \A s \in Slots :
       (upl[s].pc = "idle" /\ upl[s].result.status = 500)
         => \A l \in loans : l.bookId \notin upl[s].result.ids

\* C11: an ingest that ends as a success reports a count equal to the number
\* of loan records its step added to the table; when the books array is
\* empty it succeeds with count 0 straight from the model response, without
\* a batch write, and the table is as it was.
C11_CountIsRecordsAdded ==
    [][\A s \in Slots :
          (/\ upl[s].pc \in {"invoked", "writing"}
           /\ upl'[s].pc = "idle"
           /\ upl'[s].result.status = 200)
            => /\ upl'[s].result.count = Cardinality(loans' \ loans)
               /\ (upl[s].response.books = Array(<<>>))
                    => /\ upl[s].pc = "invoked"
                       /\ upl'[s].result.count = 0
                       /\ loans' = loans]_vars

\* both uploads have ended as a success
BothSucceeded ==
    \A s \in Slots : upl[s].pc = "idle" /\ upl[s].result.status = 200

\* C12: when two ingests got the same extraction result and both have ended
\* as a success, their bookId sets are disjoint, every record of either
\* ingest is in the table as it was written (none is overwritten), and the
\* user's record count is the sum of the two counts.
C12_SameExtractionDisjointIds ==
    (BothSucceeded /\ upl[1].response = upl[2].response)
      => /\ upl[1].result.ids \cap upl[2].result.ids = {}
         /\ \A s \in Slots : Range(upl[s].puts) \subseteq loans
         /\ Cardinality({l \in loans : l.userId = upl[1].user})
              = upl[1].result.count + upl[2].result.count

\* the table holds no item with the key (u, b)
Absent(u, b) == ~\E l \in loans : l.userId = u /\ l.bookId = b

\* a delete of (u, b) that answers success and leaves the table as it is
DeleteSucceedsUnchanged(u, b) ==
    /\ DeleteBook(u)
    /\ res' = Res("delete", u, 200, {}, b, NoSub)
    /\ loans' = loans

\* C13: a delete of a key that is not in the table can answer success, and
\* every delete that answers success leaves the table without that key and
\* otherwise as it was: unchanged when the key was absent, so that deleting
\* a key a second time gives the state and the answer of deleting it once.
C13_DeleteAbsentIsNoOp ==
    /\ [](\A u \in Users, b \in 1..MaxIds :
            Absent(u, b) => ENABLED DeleteSucceedsUnchanged(u, b))
    /\ [][(res'.op = "delete" /\ res'.status = 200)
            => /\ loans' = {l \in loans : ~(l.userId = res'.user /\ l.bookId = res'.bookId)}
               /\ Absent(res'.user, res'.bookId) => loans' = loans]_vars

\* a delete has answered success for a key that was never in the table: no
\* loan has been removed, and another user's loan with the same bookId is
\* still there
C13_Witness ==
    /\ res.op = "delete" /\ res.status = 200
    /\ Cardinality(loans) = MaxScanLoans
    /\ \E l \in loans : l.bookId = res.bookId /\ l.userId # res.user

\* C14: a list request of user u that answers success returns exactly the
\* stored loans whose userId is u: every loan of u in the table is in the
\* answer, no loan of another user is, and nothing else is.
C14_ListReturnsOwnLoans ==
    [][(res'.op = "list" /\ res'.status = 200)
         => /\ \A l \in loans : l.userId = res'.user => l \in res'.items
            /\ \A l \in res'.items : l \in loans /\ l.userId = res'.user]_vars

\* a list has returned a loan of its user while the table also holds a loan
\* of another user
C14_Witness ==
    /\ res.op = "list" /\ res.status = 200
    /\ res.items # {}
    /\ \E l \in loans : l.userId # res.user

\* C15: the subscription table has one slot per userId; a subscribe call
\* that answers 201 replaces the subscription of its user by the one it
\* carries and leaves the other users' as they are, every other step leaves
\* the table as it is, and no step removes a stored subscription.
C15_SubscribeOverwrites ==
    [][/\ \A u \in Users : subs[u] # NoSub => subs'[u] # NoSub
       /\ IF res'.op = "subscribe" /\ res'.status = 201
          THEN subs' = [u \in Users |-> IF u = res'.user THEN res'.sub ELSE subs[u]]
          ELSE subs' = subs]_vars

\* defaultUser, who had subscription sub1, has subscribed again with sub2:
\* the table holds sub2 for them
C15_Witness ==
    /\ res = Res("subscribe", "defaultUser", 201, {}, 0, "sub2")
    /\ subs["defaultUser"] = "sub2"
    /\ subs["otherUser"] = NoSub

\* the upload of slot 1 has ended as a success on a books array of one
\* well-formed book
OneBookIngested ==
    /\ upl[1].pc = "idle" /\ upl[1].result.status = 200
    /\ upl[1].response.books.t = "array"
    /\ Len(upl[1].response.books.elems) = 1
    /\ WellFormedBook(upl[1].response.books.elems[1])

\* the answer of a successful list request of the uploading user
ListedBy(r) == r.op = "list" /\ r.status = 200 /\ r.user = upl[1].user

\* C16: end to end, for a user who had no loans: after an ingest of one
\* well-formed book has succeeded, the user's first list request that
\* succeeds returns exactly one record, with that book's title, lendingDate
\* and dueDate and the ingest's bookId; and a successful list request that
\* follows a successful delete of that bookId returns the empty list.
C16_IngestListDeleteList ==
    [][OneBookIngested
         => /\ (res = NoRes /\ ListedBy(res'))
                 => \E l \in res'.items :
                       /\ res'.items = {l}
                       /\ l.bookId \in upl[1].result.ids
                       /\ l.title = upl[1].response.books.elems[1].title
                       /\ l.lendingDate = upl[1].response.books.elems[1].lending_date
                       /\ l.dueDate = upl[1].response.books.elems[1].due_date
            /\ (/\ res.op = "delete" /\ res.status = 200
                /\ res.user = upl[1].user /\ res.bookId \in upl[1].result.ids
                /\ ListedBy(res'))
                 => res'.items = {}]_vars

\* the ingested record has been deleted and the list of the user, next to
\* whose loans the table holds another user's, is empty again
C16_Witness ==
    /\ OneBookIngested
    /\ ListedBy(res) /\ res.items = {}
    /\ upl[1].response.books.elems[1].due_date # upl[1].response.books.elems[1].lending_date
    /\ \E l \in loans : l.userId # upl[1].user

\* C17: when two ingests of the same user run concurrently, in whatever
\* order their model responses and batch writes settle, and both have ended
\* as a success, the table holds every record of both batches.
C17_ConcurrentIngestsKeepAll ==
    BothSucceeded
      => \A s \in Slots : \A i \in 1..Len(upl[s].puts) : upl[s].puts[i] \in loans

\* C18: no failure of a collaborator ends an invocation without a result.  A
\* scheduled run that has ended, whether normally or on a failed books scan,
\* subscription read or push delivery, has returned statusCode 200, and a
\* run in which a delivery was rejected has ended that way; an upload whose
\* model call or batch write failed has answered with a failure response.
C18_NoUncaughtFailure ==
    /\ scan.pc = "done"
         => /\ scan.status = 200
            /\ scan.outcome \in {"no-books", "no-subscription", "sent", "error"}
    /\ \A a \in attempts :
          (~a.ok /\ a.run = runs) => scan.pc = "done" /\ scan.status = 200
    /\ \A s \in Slots :
          /\ (Processed(s) /\ upl[s].response.kind = "throw")
               => upl[s].pc = "idle" /\ upl[s].result.status = 500
          /\ upl[s].result.cause \in {"model", "store"}
               => upl[s].pc = "idle" /\ upl[s].result.status = 500

\* a run has ended with statusCode 200 after a rejected delivery, and the
\* upload has answered 500 after a failed batch write
C18_Witness ==
    /\ scan.pc = "done" /\ scan.outcome = "error" /\ scan.status = 200
    /\ \E a \in attempts : ~a.ok /\ a.run = runs
    /\ upl[1].pc = "idle" /\ upl[1].result.cause = "store"

\* C19: every step of a scheduled run, whatever the outcome of the run (no
\* due loans, no subscription, deliveries sent, a failed call), leaves the
\* loan table and the subscription table as they are.
C19_ScanLeavesTablesUnchanged ==
    [][(scan' # scan \/ runs' # runs \/ attempts' # attempts)
         => loans' = loans /\ subs' = subs]_vars

\* two runs over a table that holds loans have ended: a delivery was
\* rejected in the first run and the second run has sent its deliveries
C19_Witness ==
    /\ runs = MaxRuns
    /\ scan.pc = "done" /\ scan.outcome = "sent"
    /\ \E a \in attempts : ~a.ok /\ a.run = 1
    /\ loans # {}

\* the normal end of the subscription read when no subscription is stored
ScanGetSubEndsNormally ==
    /\ ScanGetSub
    /\ scan' = Done(scan, "no-subscription")

\* C20: while no subscription is stored for the user, a scheduled run makes
\* no delivery attempt, however many loans are due: its subscription read
\* can end the run normally, with statusCode 200 and no error, and ends it
\* in no other way than that or a failure of the read itself.
C20_NoSubscriptionNoDelivery ==
    /\ [](subs["defaultUser"] = NoSub
            => /\ attempts = {}
               /\ scan.pc # "sending"
               /\ scan.pc = "getsub" => ENABLED ScanGetSubEndsNormally)
    /\ [][(subs["defaultUser"] = NoSub /\ scan.pc = "getsub" /\ scan' # scan)
            => /\ scan'.pc = "done" /\ scan'.status = 200
               /\ scan'.outcome \in {"no-subscription", "error"}]_vars

\* a run that found the largest number of due loans has ended normally on
\* the absent subscription, without a delivery attempt
C20_Witness ==
    /\ subs["defaultUser"] = NoSub
    /\ scan.pc = "done" /\ scan.outcome = "no-subscription" /\ scan.status = 200
    /\ Len(scan.books) = MaxScanLoans
    /\ attempts = {}

\* the extracted object of the response has a books array with at least one
\* well-formed element: the ingest has a surviving record
HasSurvivor(r) ==
    /\ r.kind = "ok"
    /\ JsonParses(RegexMatch(r.text))
    /\ HasTopLevelBooks(RegexMatch(r.text))
    /\ r.books.t = "array"
    /\ \E i \in 1..Len(r.books.elems) : WellFormedBook(r.books.elems[i])

\* C21: an ingest with at least one surviving record issues exactly one
\* batch write: the step that processes the model response issues a write
\* that holds a put for every well-formed element of the books array, and
\* the step that settles the write ends the request without a further write.
C21_OneBatchWriteWithAllRecords ==
    [][\A s \in Slots :
          /\ (upl[s].pc = "invoked" /\ upl'[s] # upl[s] /\ HasSurvivor(upl[s].response))
               => /\ upl'[s].pc = "writing"
                  /\ \A i \in 1..Len(upl[s].response.books.elems) :
                        WellFormedBook(upl[s].response.books.elems[i])
                          => \E j \in 1..Len(upl'[s].puts) :
                                BookOf(upl'[s].puts[j]) = upl[s].response.books.elems[i]
          /\ (upl[s].pc = "writing" /\ upl'[s] # upl[s])
               => upl'[s].pc = "idle" /\ upl'[s].puts = upl[s].puts]_vars

\* the calendar day of the instant in the timezone with the offset
LocalDate(now, off) == Day((now + off) \div HoursPerDay)

\* C22: the today string of a run is the calendar date of the run's instant
\* in the timezone of the process, in which the time of day is truncated,
\* and the tomorrow string is the following calendar date, for every offset
\* of that timezone and every hour of the day.
C22_TodayIsLocalDate ==
    [][runs' = runs + 1
         => /\ scan'.todayStr = LocalDate(clock, tzOffset)
            /\ scan'.tomorrowStr = Day(LocalDate(clock, tzOffset).d + 1)]_vars

\* the delivery attempts of run `run` for the loan l
AttemptsFor(run, l) ==
    {a \in attempts : a.run = run /\ a.userId = l.userId /\ a.bookId = l.bookId}

\* C23: in a run that found a subscription, no loan gets a second delivery
\* attempt (there is no retry) and every attempt is for a loan the run
\* selected; when the run ends without a rejected delivery, every selected
\* loan has got exactly one attempt, whose payload has the title 'Book
\* Return Reminder' and a body made of that loan's title and dueDate.
C23_OneAttemptPerLoan ==
    /\ \A l \in loans : \A r \in 1..MaxRuns : Cardinality(AttemptsFor(r, l)) <= 1
    /\ \A a \in attempts :
          a.run = runs => \E l \in Range(scan.books) : a \in AttemptsFor(runs, l)
    /\ (scan.pc = "done" /\ scan.outcome = "sent")
         => \A l \in Range(scan.books) :
               \E a \in AttemptsFor(runs, l) :
                  /\ AttemptsFor(runs, l) = {a}
                  /\ a.ok
                  /\ a.payload.title = "Book Return Reminder"
                  /\ a.payload.bookTitle = l.title
                  /\ a.payload.dueDate = l.dueDate

\* a run has delivered one notification for each of the largest number of
\* due loans, after a run in which a delivery was rejected
C23_Witness ==
    /\ scan.pc = "done" /\ scan.outcome = "sent"
    /\ Len(scan.books) = MaxScanLoans
    /\ \E a \in attempts : ~a.ok /\ a.run < runs

\* C24: a delete request of user u for bookId b, whatever it answers,
\* removes nothing but the record with key (u, b): every record with another
\* bookId, and every record of another user, with the same bookId too, stays
\* as it is, and the subscription table is unchanged.
C24_DeleteTouchesOneKey ==
    [][res'.op = "delete"
         => /\ \A l \in loans :
                  (l.userId # res'.user \/ l.bookId # res'.bookId) => l \in loans'
            /\ loans' \subseteq loans
            /\ subs' = subs]_vars

\* a delete has answered success, the key is gone, and another loan of the
\* same user is still in the table
C24_Witness ==
    /\ res.op = "delete" /\ res.status = 200
    /\ Absent(res.user, res.bookId)
    /\ Cardinality(loans) = MaxScanLoans - 1
    /\ \E l \in loans : l.userId = res.user /\ l.bookId # res.bookId

C26_SchedulesRouteToScan ==
    [][\A sch \in Schedules :
          handler(sch) => runs' = runs + 1 /\ res' = res]_vars

\* C27: however a scheduled run interleaves with delete requests, the run
\* reads the loan table once, when it starts, and attempts deliveries only
\* for loans of that read: a loan whose delete was completed before the read
\* is not in the table the read sees and gets no attempt in the run.
C27_NoDeliveryForDeletedLoan ==
    /\ [][runs' = runs + 1 => Range(scan'.books) \subseteq loans]_vars
    /\ [](\A a \in attempts :
            a.run = runs
              => \E l \in Range(scan.books) : l.userId = a.userId /\ l.bookId = a.bookId)
    /\ [][scan'.books # scan.books => runs' = runs + 1]_vars

\* a loan was notified in the first run and then deleted; the second run
\* has sent its notifications, none of them for the deleted loan
C27_Witness ==
    /\ runs = 2 /\ scan.pc = "done" /\ scan.outcome = "sent"
    /\ res.op = "delete" /\ res.status = 200
    /\ Absent(res.user, res.bookId)
    /\ \E a \in attempts : a.run = 1 /\ a.userId = res.user /\ a.bookId = res.bookId
    /\ ~\E a \in attempts : a.run = 2 /\ a.userId = res.user /\ a.bookId = res.bookId

\* the bookIds the local list shows
Listed == {l.bookId : l \in store.books}

\* C28: once deleteBook(b) has resolved successfully the local books list
\* does not contain b, whatever the interleaving with a fetchBooks that was
\* started before the delete and resolves after it
C28_DeletedBookStaysOffList ==
    \A c \in calls : (c.kind = "delete" /\ c.pc = "settled") => c.bookId \notin Listed

\* C29: isLoading is true in every state in which a call of login,
\* fetchBooks, uploadImage or deleteBook has started and has not resolved
C29_LoadingWhilePending ==
    Pending # {} => store.isLoading

\* a call of fetchBooks, uploadImage or deleteBook whose request failed ends
\* in this step
FailedCallEnds(c) ==
    /\ c \in calls
    /\ c.kind \in {"fetch", "upload", "delete"}
    /\ c.pc = "rejected"
    /\ c \notin calls'

\* C30: when the request of fetchBooks, uploadImage or deleteBook fails the
\* action ends with a non-null error and isLoading false and leaves the
\* local books list and isAuthenticated as they were; every action sets
\* error to null when it starts
C30_FailureSetsErrorOnly ==
    [][/\ \A c \in calls :
            FailedCallEnds(c) =>
              /\ store'.error # Null
              /\ store'.isLoading = FALSE
              /\ store'.books = store.books
              /\ store'.isAuthenticated = store.isAuthenticated
       /\ \A c \in calls' \ calls : c.pc = "sent" => store'.error = Null]_vars

\* a request has failed while the list showed a loan and the user was
\* logged in, and the action has ended
C30_Witness ==
    /\ store.error \in {Str("Failed to fetch books."), Str("Failed to upload image."),
                        Str("Failed to delete book.")}
    /\ store.isLoading = FALSE
    /\ store.books # {}
    /\ store.isAuthenticated
    /\ calls = {}

====
